---- MODULE Spec2Model ----
(***************************************************************************)
(* A model of pawk (src/pawk.py): the snippet compiler with last-expression *)
(* capture, the per-line execution context, the Action fire predicate, the  *)
(* result formatter and the BEGIN / LINE* / END driver `process`.           *)
(*                                                                          *)
(* Python values are tagged records with one shape, strings are sequences   *)
(* of one-character strings, a snippet text is its parsed statement list    *)
(* (or a text that does not parse), a regular expression is a literal with  *)
(* an optional capture group.                                               *)
(***************************************************************************)
EXTENDS Integers, Sequences, FiniteSets, TLC

VARIABLES
    pc,        \* position in run()/process(): construct, begin, refresh, action, end, done, raised
    options,   \* the parsed command line: strict, begin, end, delim, odelim, args
    actions,   \* the Action objects built by run()
    context,   \* the Context dict: name -> value (Absent when not a key)
    numz,      \* enumerate(input)'s index of the current line
    line,      \* process's local `line`
    ai,        \* index of the next Action of the inner for loop
    output,    \* every write() call made on the sink, in order
    err,       \* the exception that left process()/run(), if any
    consumed,  \* history: the lines read from the input so far
    steps,     \* history: the steps process has taken
    emitted,   \* history: the step each output unit came from
    wroteAt,   \* history: line index during which each name was last bound (0: before any line)
    hin,       \* pure-function harness: the drawn inputs
    hout       \* pure-function harness: the function's result

vars == <<pc, options, actions, context, numz, line, ai, output, err,
          consumed, steps, emitted, wroteAt, hin, hout>>

(***************************************************************************)
(* Bounds of the model: input lines per run, rules per run, statements per  *)
(* snippet text, elements per list or tuple.                                *)
(***************************************************************************)
MaxLines == 2
MaxActions == 2
MaxStmts == 2
MaxItems == 2

(***************************************************************************)
(* Strings.                                                                 *)
(***************************************************************************)
NL == "\n"
Whitespace == {" ", NL}

Last(s) == s[Len(s)]
Front(s) == SubSeq(s, 1, Len(s) - 1)

\* str.endswith('\n')
EndsWithNL(s) == Len(s) > 0 /\ Last(s) = NL

\* str.rstrip(): drop trailing whitespace
RECURSIVE RStrip(_)
RStrip(s) ==
    IF Len(s) > 0 /\ Last(s) \in Whitespace THEN RStrip(Front(s)) ELSE s

\* the characters str.split(delim) separates on: whitespace for None, else the delimiter
Separators(delim) == IF delim = <<>> THEN Whitespace ELSE {delim[1]}

\* [w for w in l.split(delim) if w]: the maximal runs of non-separator characters
RECURSIVE SplitNonEmpty(_, _, _)
SplitNonEmpty(s, seps, cur) ==
    IF s = <<>> THEN (IF cur = <<>> THEN <<>> ELSE <<cur>>)
    ELSE IF Head(s) \in seps
         THEN (IF cur = <<>> THEN <<>> ELSE <<cur>>) \o SplitNonEmpty(Tail(s), seps, <<>>)
         ELSE SplitNonEmpty(Tail(s), seps, Append(cur, Head(s)))

RECURSIVE Flatten(_)
Flatten(ss) == IF ss = <<>> THEN <<>> ELSE Head(ss) \o Flatten(Tail(ss))

\* sep.join(parts)
RECURSIVE Join(_, _)
Join(sep, parts) ==
    IF parts = <<>> THEN <<>>
    ELSE IF Len(parts) = 1 THEN parts[1]
    ELSE parts[1] \o sep \o Join(sep, Tail(parts))

Digit(d) ==
    CASE d = 0 -> "0" [] d = 1 -> "1" [] d = 2 -> "2" [] d = 3 -> "3" [] d = 4 -> "4"
      [] d = 5 -> "5" [] d = 6 -> "6" [] d = 7 -> "7" [] d = 8 -> "8" [] d = 9 -> "9"

\* str(n) for n >= 0
RECURSIVE IntStr(_)
IntStr(n) == IF n < 10 THEN <<Digit(n)>> ELSE Append(IntStr(n \div 10), Digit(n % 10))

(***************************************************************************)
(* Python values.                                                           *)
(***************************************************************************)
Val(ty, b, n, s, items) == [ty |-> ty, b |-> b, n |-> n, s |-> s, items |-> items]
PyNone == Val("none", FALSE, 0, <<>>, <<>>)
PyBool(b) == Val("bool", b, 0, <<>>, <<>>)
PyInt(n) == Val("int", FALSE, n, <<>>, <<>>)
PyStr(s) == Val("str", FALSE, 0, s, <<>>)
PyTuple(items) == Val("tuple", FALSE, 0, <<>>, items)
PyList(items) == Val("list", FALSE, 0, <<>>, items)
\* not a key of the dict
Absent == Val("absent", FALSE, 0, <<>>, <<>>)

\* str(x) of a scalar
StrOf(v) ==
    CASE v.ty = "str" -> v.s
      [] v.ty = "int" -> IntStr(v.n)
      [] v.ty = "bool" -> (IF v.b THEN <<"T", "r", "u", "e">> ELSE <<"F", "a", "l", "s", "e">>)
      [] OTHER -> <<"N", "o", "n", "e">>

\* map(str, result)
MapStr(items) == [i \in 1..Len(items) |-> StrOf(items[i])]

(***************************************************************************)
(* Snippet texts and their syntax trees.                                    *)
(***************************************************************************)
RESULT_VAR_NAME == "__result"

\* the names a Context can hold
Names == {"t", "m", "line", "l", "n", "f", "nf", "x", RESULT_VAR_NAME}
\* the names snippet texts use: the capture slot is private to the compiler
SnippetNames == Names \ {RESULT_VAR_NAME}

\* expressions: a constant, a name, or an expression whose evaluation raises
Const(v) == [k |-> "const", v |-> v, id |-> ""]
Name(id) == [k |-> "name", v |-> PyNone, id |-> id]
Boom == [k |-> "fault", v |-> PyNone, id |-> ""]

\* statements: ast.Assign, ast.AugAssign (+=), ast.Expr
Assign(var, e) == [op |-> "assign", var |-> var, e |-> e]
AugAssign(var, e) == [op |-> "aug", var |-> var, e |-> e]
ExprStmt(e) == [op |-> "expr", var |-> "", e |-> e]

\* a text: whether compile() accepts it, and the body of its tree
Text(body) == [ok |-> TRUE, body |-> body]
BadText == [ok |-> FALSE, body |-> <<>>]
\* truth value of a str: non-empty
Truthy(text) == ~(text.ok /\ text.body = <<>>)

\* body.insert(0, __result = None)
InitResult(body) == <<Assign(RESULT_VAR_NAME, Const(PyNone))>> \o body

\* body[-1] = (__result = node.value)
StoreLast(body, node) == [body EXCEPT ![Len(body)] = Assign(RESULT_VAR_NAME, node.e)]

\* faulty variant: the trailing expression is left as a bare expression
SaveLastExpressionNoRewrite(body) == InitResult(body)

\* save_last_expression: prepend `__result = None`; turn a trailing bare
\* expression into an assignment to __result
SaveLastExpression(body) ==
    IF Len(body) > 0 /\ Last(body).op = "expr"
    THEN StoreLast(InitResult(body), Last(body))
    ELSE InitResult(body)

\* compile_command: the code object, or SyntaxError (ok = FALSE)
CompileCommand(text) ==
    [ok |-> text.ok, code |-> IF text.ok THEN SaveLastExpression(text.body) ELSE <<>>]

(***************************************************************************)
(* Execution of a code object against a context.  An execution state is    *)
(* [ok, ctx, wrote]: no exception so far, the bindings, the names bound.    *)
(***************************************************************************)
\* evaluation of an expression: a value, or a raised exception
EvalExpr(e, ctx) ==
    CASE e.k = "const" -> [ok |-> TRUE, v |-> e.v]
      [] e.k = "name" -> [ok |-> ctx[e.id] # Absent, v |-> ctx[e.id]]
      [] OTHER -> [ok |-> FALSE, v |-> PyNone]

\* a + b: defined on two strs, two ints, two tuples; TypeError otherwise
Add(a, b) ==
    CASE a.ty = "str" /\ b.ty = "str" -> [ok |-> TRUE, v |-> PyStr(a.s \o b.s)]
      [] a.ty = "int" /\ b.ty = "int" -> [ok |-> TRUE, v |-> PyInt(a.n + b.n)]
      [] a.ty = "tuple" /\ b.ty = "tuple" -> [ok |-> TRUE, v |-> PyTuple(a.items \o b.items)]
      [] OTHER -> [ok |-> FALSE, v |-> PyNone]

\* store r.v under var unless r raised
Store(var, s, r) ==
    IF r.ok
    THEN [ok |-> TRUE, ctx |-> [s.ctx EXCEPT ![var] = r.v], wrote |-> s.wrote \cup {var}]
    ELSE [s EXCEPT !.ok = FALSE]

\* var += e, with e evaluated to r
StoreSum(var, s, r) ==
    IF r.ok /\ s.ctx[var] # Absent
    THEN Store(var, s, Add(s.ctx[var], r.v))
    ELSE [s EXCEPT !.ok = FALSE]

\* one statement whose expression evaluated to r
Bind(stmt, s, r) ==
    CASE stmt.op = "expr" -> [s EXCEPT !.ok = r.ok]
      [] stmt.op = "assign" -> Store(stmt.var, s, r)
      [] OTHER -> StoreSum(stmt.var, s, r)

ExecStmt(stmt, s) == Bind(stmt, s, EvalExpr(stmt.e, s.ctx))

\* exec: the statements in order, stopping at the first that raises
RECURSIVE Exec(_, _)
Exec(code, s) ==
    IF code = <<>> \/ ~s.ok THEN s ELSE Exec(Tail(code), ExecStmt(Head(code), s))

Fresh(ctx) == [ok |-> TRUE, ctx |-> ctx, wrote |-> {}]

\* return context.pop('__result'), when exec raised nothing
Pop(s) ==
    [ok |-> s.ok,
     ret |-> IF s.ok THEN s.ctx[RESULT_VAR_NAME] ELSE PyNone,
     ctx |-> IF s.ok THEN [s.ctx EXCEPT ![RESULT_VAR_NAME] = Absent] ELSE s.ctx,
     wrote |-> s.wrote \ {RESULT_VAR_NAME}]

\* eval_in_context
EvalInContext(code, ctx) == Pop(Exec(code, Fresh(ctx)))

(***************************************************************************)
(* Patterns.                                                                *)
(***************************************************************************)
\* a regular expression `pre(cap)` (or `precap` without the group), or one
\* that re.compile rejects
Regex(pre, cap, hasGroup) == [ok |-> TRUE, pre |-> pre, cap |-> cap, hasGroup |-> hasGroup]
BadRegex == [ok |-> FALSE, pre |-> <<>>, cap |-> <<>>, hasGroup |-> FALSE]

Occurs(lit, ln) ==
    \E i \in 1..(Len(ln) - Len(lit) + 1) : SubSeq(ln, i, i + Len(lit) - 1) = lit

\* pattern.search(line) is not None
Search(re, ln) == Occurs(re.pre \o re.cap, ln)

\* match.groups()
Groups(re) == PyTuple(IF re.hasGroup THEN <<PyStr(re.cap)>> ELSE <<>>)

(***************************************************************************)
(* Action.                                                                  *)
(***************************************************************************)
DefaultEmit == Text(<<ExprStmt(Name("l"))>>)
DefaultAccumulate == Text(<<AugAssign("t", Name("line"))>>)

\* Action._compile's choice for an empty cmd
DefaultCmd(have_end_statement) ==
    IF have_end_statement THEN DefaultAccumulate ELSE DefaultEmit

\* the Action object, once its pattern and its cmd compiled
Built(pattern, cmd, negate, strict, co) ==
    IF pattern # <<>> /\ ~pattern[1].ok THEN [ok |-> FALSE, err |-> "re.error"]
    ELSE IF ~co.ok THEN [ok |-> FALSE, err |-> "SyntaxError"]
    ELSE [ok |-> TRUE, err |-> "",
          negate |-> negate, pattern |-> pattern, cmd |-> cmd,
          strict |-> strict, codeobj |-> co.code]

\* Action._compile
Compiled(pattern, cmd, negate, strict) ==
    Built(pattern, cmd, negate, strict, CompileCommand(cmd))

\* Action.__init__: the object, or the exception its construction raises
ActionInit(pattern, cmd, have_end_statement, negate, strict) ==
    Compiled(pattern, IF ~Truthy(cmd) THEN DefaultCmd(have_end_statement) ELSE cmd,
             negate, strict)

\* faulty variant: a pattern is matched without regard to negate
MatchIgnoreNegate(action, ln) ==
    IF action.pattern = <<>> THEN PyBool(action.negate)
    ELSE IF Search(action.pattern[1], ln) THEN Groups(action.pattern[1])
    ELSE PyNone

\* Action._match: None (do not fire) or the value to bind to m
Match(action, ln) ==
    IF action.pattern = <<>> THEN PyBool(action.negate)
    ELSE IF Search(action.pattern[1], ln)
         THEN (IF action.negate THEN PyNone ELSE Groups(action.pattern[1]))
         ELSE (IF action.negate THEN PyTuple(<<>>) ELSE PyNone)

NotFired(ctx) ==
    [ret |-> PyNone, ctx |-> ctx, raised |-> FALSE, fired |-> FALSE,
     faulted |-> FALSE, wrote |-> {}]

\* faulty variant: the exception is swallowed in strict mode too
CaughtAlways(action, r) ==
    [ret |-> r.ret, ctx |-> r.ctx, raised |-> FALSE, fired |-> TRUE,
     faulted |-> ~r.ok, wrote |-> r.wrote \cup {"m"}]

\* faulty variant: a swallowed exception returns '' instead of None
CaughtEmptyString(action, r) ==
    [ret |-> IF r.ok THEN r.ret ELSE PyStr(<<>>), ctx |-> r.ctx,
     raised |-> ~r.ok /\ action.strict, fired |-> TRUE,
     faulted |-> ~r.ok, wrote |-> r.wrote \cup {"m"}]

\* the try/except around eval_in_context: swallow unless strict
Caught(action, r) ==
    [ret |-> IF r.ok THEN r.ret ELSE PyNone, ctx |-> r.ctx, raised |-> ~r.ok /\ action.strict, fired |-> TRUE,
     faulted |-> ~r.ok, wrote |-> r.wrote \cup {"m"}]

Fire(action, ctx, match) ==
    IF match = PyNone THEN NotFired(ctx)
    ELSE Caught(action, EvalInContext(action.codeobj, [ctx EXCEPT !["m"] = match]))

\* Action.apply: the returned value, the context afterwards, whether the
\* snippet's exception propagates
Apply(action, ctx, ln) == Fire(action, ctx, Match(action, ln))

(***************************************************************************)
(* Context.                                                                 *)
(***************************************************************************)
PerLine == {"line", "l", "n", "f", "nf"}

\* self.update(line=line, l=l, n=numz + 1, f=f, nf=len(f))
Update(ctx, ln, nz, l, f) ==
    [ctx EXCEPT !["line"] = PyStr(ln), !["l"] = PyStr(l), !["n"] = PyInt(nz + 1),
                !["f"] = PyTuple([i \in 1..Len(f) |-> PyStr(f[i])]),
                !["nf"] = PyInt(Len(f))]

Tokens(l, delim) == SplitNonEmpty(l, Separators(delim), <<>>)

Refreshed(ctx, delim, nz, ln, l) == Update(ctx, ln, nz, l, Tokens(l, delim))

\* faulty variant: the line index is not refreshed
ContextApplyKeepN(ctx, delim, nz, ln) ==
    [Refreshed(ctx, delim, nz, ln, RStrip(ln)) EXCEPT !["n"] = ctx["n"]]

\* Context.apply: the refresh of the per-line fields
ContextApply(ctx, delim, nz, ln) == Refreshed(ctx, delim, nz, ln, RStrip(ln))

\* Context.from_options: t = '', m = ()
ContextFromOptions ==
    [k \in Names |->
        CASE k = "t" -> PyStr(<<>>)
          [] k = "m" -> PyTuple(<<>>)
          [] OTHER -> Absent]

(***************************************************************************)
(* Result formatter.                                                        *)
(***************************************************************************)
IsTrue(v) == v.ty = "bool" /\ v.b
IsFalse(v) == v.ty = "bool" /\ ~v.b

\* `if result is True: ... elif isinstance(result, (list, tuple)): ...`
Convert(result, when_true, odelim) ==
    IF IsTrue(result) THEN when_true
    ELSE IF result.ty \in {"list", "tuple"}
         THEN PyStr(Join(odelim, MapStr(result.items)))
         ELSE result

\* write(result); if not result.endswith('\n'): write('\n')
WriteText(s) == IF EndsWithNL(s) THEN <<s>> ELSE <<s, <<NL>>>>

\* `if result is not None and result is not False:`
Emit(r1) == IF r1 # PyNone /\ ~IsFalse(r1) THEN WriteText(StrOf(r1)) ELSE <<>>

\* faulty variant: the terminator is written whatever the text ends with
WriteResultAlwaysNL(result, when_true, odelim) ==
    IF Emit(Convert(result, when_true, odelim)) = <<>> THEN <<>>
    ELSE <<Emit(Convert(result, when_true, odelim))[1], <<NL>>>>

\* write_result: the write() calls it makes, in order
WriteResult(result, when_true, odelim) == Emit(Convert(result, when_true, odelim))

(***************************************************************************)
(* The runs explored: command lines and input lines.                        *)
(***************************************************************************)
LineAB == <<"a", "b", NL>>
LineBA == <<"b", " ", "a", NL>>
Lines == {LineAB, LineBA}

\* rule, begin and end texts: '', 'x = line; 1/0', 'x', 'm', 't',
\* 'n = t; m' (binds a per-line name), and BadText for one that does not parse
CmdEmpty == Text(<<>>)
CmdFault == Text(<<Assign("x", Name("line")), ExprStmt(Boom)>>)
CmdX == Text(<<ExprStmt(Name("x"))>>)
CmdM == Text(<<ExprStmt(Name("m"))>>)
CmdT == Text(<<ExprStmt(Name("t"))>>)
CmdClobber == Text(<<Assign("n", Name("t")), ExprStmt(Name("m"))>>)

\* the pattern /a(b)/
PatternAB == Regex(<<"a">>, <<"b">>, TRUE)

\* a rule argument as Action._parse_command splits it
Rule(negate, pattern, cmd) == [negate |-> negate, pattern |-> pattern, cmd |-> cmd]

Rules ==
    {Rule(FALSE, <<PatternAB>>, CmdM), Rule(TRUE, <<>>, CmdM),
     Rule(TRUE, <<PatternAB>>, CmdFault), Rule(FALSE, <<BadRegex>>, CmdM)}
    \cup {Rule(FALSE, <<>>, c) : c \in {CmdEmpty, CmdFault, CmdX, CmdClobber, BadText}}

SeqsUpTo(S, n) == UNION {[1..k -> S] : k \in 0..n}

\* the parsed options; an optional text is <<>> for None, else <<text>>
OptionSet ==
    [strict : BOOLEAN,
     begin : {<<>>, <<CmdT>>, <<CmdX>>, <<BadText>>},
     end : {<<>>, <<CmdEmpty>>, <<CmdT>>, <<CmdX>>, <<BadText>>},
     delim : {<<>>, <<"b">>},
     odelim : {<<" ">>},
     args : SeqsUpTo(Rules, MaxActions)]

\* the harness variables outside a harness run, and before the call
NoInput == [f |-> ""]
NotCalled == [called |-> FALSE]

(***************************************************************************)
(* run() and process().                                                     *)
(***************************************************************************)
Init ==
    /\ pc = "construct"
    /\ options \in OptionSet
    /\ actions = <<>>
    /\ context = ContextFromOptions
    /\ numz = 0
    /\ line = <<>>
    /\ ai = 1
    /\ output = <<>>
    /\ err = ""
    /\ consumed = <<>>
    /\ steps = <<>>
    /\ emitted = <<>>
    /\ wroteAt = [k \in Names |-> 0]
    /\ hin = NoInput
    /\ hout = NotCalled

\* run(): args, or [''] when there are none
RuleArgs(args) == IF args = <<>> THEN <<Rule(FALSE, <<>>, CmdEmpty)>> ELSE args

\* Action.from_options: have_end_statement=(options.end is not None)
HaveEndStatement(end) == end # <<>>

\* process: `if begin_statement:` / `if end_statement:`
Configured(stmt) == stmt # <<>> /\ Truthy(stmt[1])

\* Action.from_options(options, arg)
ActionFromOptions(opts, arg) ==
    ActionInit(arg.pattern, arg.cmd, HaveEndStatement(opts.end), arg.negate, opts.strict)

\* [Action.from_options(options, arg) for arg in args]
BuildAll(opts, args) == [i \in 1..Len(args) |-> ActionFromOptions(opts, args[i])]

\* the first construction that raises, if any
FirstBad(built) ==
    IF \A i \in 1..Len(built) : built[i].ok THEN 0
    ELSE CHOOSE i \in 1..Len(built) :
            ~built[i].ok /\ \A j \in 1..(i - 1) : built[j].ok

Constructed(built, bad) ==
    /\ actions' = IF bad = 0 THEN built ELSE actions
    /\ pc' = IF bad = 0 THEN "begin" ELSE "raised"
    /\ err' = IF bad = 0 THEN err ELSE built[bad].err

ConstructAll(built) == Constructed(built, FirstBad(built))

\* run(): build the actions before process is called
Construct ==
    /\ pc = "construct"
    /\ ConstructAll(BuildAll(options, RuleArgs(options.args)))
    /\ UNCHANGED <<options, context, numz, line, ai, output, consumed, steps, emitted,
                   wroteAt, hin, hout>>

Stamp(w, names, k) == [n \in Names |-> IF n \in names THEN k ELSE w[n]]

Record(hist, writes, here) == IF writes # <<>> THEN Append(hist, here) ELSE hist

\* the begin and end phases, the text evaluated to r and formatted to w
PhaseWritten(kind, next, r, w) ==
    /\ steps' = Append(steps, <<kind, 0, 0>>)
    /\ context' = r.ctx
    /\ wroteAt' = Stamp(wroteAt, r.wrote, 0)
    /\ output' = IF r.ok THEN output \o w ELSE output
    /\ emitted' = IF r.ok THEN Record(emitted, w, <<kind, 0, 0>>) ELSE emitted
    /\ pc' = IF r.ok THEN next ELSE "raised"
    /\ err' = IF r.ok THEN err ELSE "EvalError"

PhaseRan(kind, next, r) ==
    PhaseWritten(kind, next, r, WriteResult(r.ret, PyNone, options.odelim))

PhaseCompiled(kind, next, co) ==
    IF ~co.ok
    THEN /\ pc' = "raised"
         /\ err' = "SyntaxError"
         /\ UNCHANGED <<context, output, steps, emitted, wroteAt>>
    ELSE PhaseRan(kind, next, EvalInContext(co.code, context))

\* `if stmt: write_result(eval_in_context(compile_command(stmt), context))`
Phase(stmt, kind, next) ==
    IF ~Configured(stmt)
    THEN /\ pc' = next
         /\ UNCHANGED <<context, output, err, steps, emitted, wroteAt>>
    ELSE PhaseCompiled(kind, next, CompileCommand(stmt[1]))

Begin ==
    /\ pc = "begin"
    /\ Phase(options.begin, "begin", "refresh")
    /\ UNCHANGED <<options, actions, numz, line, ai, consumed, hin, hout>>

\* for numz, line in enumerate(input): context.apply(numz, line)
ReadLine ==
    /\ pc = "refresh"
    /\ Len(consumed) < MaxLines
    /\ \E ln \in Lines :
        /\ line' = ln
        /\ consumed' = Append(consumed, ln)
        /\ context' = ContextApply(context, options.delim, Len(consumed), ln)
    /\ numz' = Len(consumed)
    /\ wroteAt' = Stamp(wroteAt, PerLine, Len(consumed) + 1)
    /\ steps' = Append(steps, <<"refresh", Len(consumed) + 1, 0>>)
    /\ ai' = 1
    /\ pc' = "action"
    /\ UNCHANGED <<options, actions, output, err, emitted, hin, hout>>

\* the input is exhausted
EndOfInput ==
    /\ pc = "refresh"
    /\ pc' = "end"
    /\ UNCHANGED <<options, actions, context, numz, line, ai, output, err, consumed,
                   steps, emitted, wroteAt, hin, hout>>

\* faulty variant: the actions after one that wrote output are skipped
AfterApplyShortCircuit(j, nActions, wrote) ==
    IF j < nActions /\ ~wrote THEN [pc |-> "action", ai |-> j + 1]
    ELSE [pc |-> "refresh", ai |-> 1]

\* the inner for loop: the next action, or on to the next line
AfterApply(j, nActions, wrote) ==
    IF j < nActions THEN [pc |-> "action", ai |-> j + 1]
    ELSE [pc |-> "refresh", ai |-> 1]

AppliedTo(r, w, here, nxt) ==
    /\ context' = r.ctx
    /\ wroteAt' = Stamp(wroteAt, r.wrote, numz + 1)
    /\ steps' = Append(steps, here)
    /\ output' = IF r.raised THEN output ELSE output \o w
    /\ emitted' = IF r.raised THEN emitted ELSE Record(emitted, w, here)
    /\ pc' = IF r.raised THEN "raised" ELSE nxt.pc
    /\ ai' = IF r.raised THEN ai ELSE nxt.ai
    /\ err' = IF r.raised THEN "EvalError" ELSE err

Written(r, w) ==
    AppliedTo(r, w, <<"apply", numz + 1, ai>>, AfterApply(ai, Len(actions), w # <<>>))

Applied(r) == Written(r, WriteResult(r.ret, PyStr(line), options.odelim))

\* write_result(action.apply(context, line), when_true=line)
ApplyAction ==
    /\ pc = "action"
    /\ Applied(Apply(actions[ai], context, line))
    /\ UNCHANGED <<options, actions, numz, line, consumed, hin, hout>>

End ==
    /\ pc = "end"
    /\ Phase(options.end, "end", "done")
    /\ UNCHANGED <<options, actions, numz, line, ai, consumed, hin, hout>>

Next == Construct \/ Begin \/ ReadLine \/ EndOfInput \/ ApplyAction \/ End

Spec == Init /\ [][Next]_vars

(***************************************************************************)
(* Harnesses: one call of a pure function on inputs drawn from bounded sets. *)
(***************************************************************************)
\* characters per string handed to write_result
MaxLen == 2

StrsUpTo(n) == SeqsUpTo({"a", NL}, n)

\* process()'s variables, unused by a harness
Idle ==
    /\ pc = "harness"
    /\ options = [strict |-> FALSE, begin |-> <<>>, end |-> <<>>, delim |-> <<>>,
                  odelim |-> <<" ">>, args |-> <<>>]
    /\ actions = <<>>
    /\ context = ContextFromOptions
    /\ numz = 0
    /\ line = <<>>
    /\ ai = 1
    /\ output = <<>>
    /\ err = ""
    /\ consumed = <<>>
    /\ steps = <<>>
    /\ emitted = <<>>
    /\ wroteAt = [k \in Names |-> 0]

Called(r) == [called |-> TRUE, r |-> r]

\* --- write_result ---
Scalars == {PyStr(<<"a">>), PyStr(<<"a", NL>>), PyInt(1)}

WriteValues ==
    {PyNone, PyBool(TRUE), PyBool(FALSE), PyInt(0), PyInt(12)}
    \cup {PyStr(cs) : cs \in StrsUpTo(MaxLen)}
    \cup {PyTuple(it) : it \in SeqsUpTo(Scalars, MaxItems)}
    \cup {PyList(it) : it \in SeqsUpTo(Scalars, MaxItems)}

WriteDefaults == {PyNone} \cup {PyStr(cs) : cs \in StrsUpTo(MaxLen)}

InitWrite ==
    /\ Idle
    /\ hin \in [f : {"write_result"}, result : WriteValues, when_true : WriteDefaults,
                odelim : {<<" ">>, <<",">>}]
    /\ hout = NotCalled

CallWriteResult ==
    /\ hin.f = "write_result"
    /\ ~hout.called
    /\ hout' = Called(WriteResult(hin.result, hin.when_true, hin.odelim))
    /\ UNCHANGED <<pc, options, actions, context, numz, line, ai, output, err,
                   consumed, steps, emitted, wroteAt, hin>>

SpecWrite == InitWrite /\ [][CallWriteResult]_vars

\* --- compile_command and eval_in_context ---
SnippetExprs == {Const(PyInt(1)), Name("x"), Name("t"), Boom}

SnippetStmts ==
    {Assign(v, e) : v \in {"x", "t"}, e \in SnippetExprs}
    \cup {AugAssign(v, e) : v \in {"x", "t"}, e \in SnippetExprs}
    \cup {ExprStmt(e) : e \in SnippetExprs}

SnippetContexts ==
    {ContextFromOptions, [ContextFromOptions EXCEPT !["x"] = PyInt(1), !["t"] = PyInt(1)]}

InitSnippet ==
    /\ Idle
    /\ hin \in [f : {"eval_in_context"},
                text : {Text(b) : b \in SeqsUpTo(SnippetStmts, MaxStmts)},
                ctx : SnippetContexts]
    /\ hout = NotCalled

\* eval_in_context(compile_command(text), context)
CallSnippet ==
    /\ hin.f = "eval_in_context"
    /\ ~hout.called
    /\ hout' = Called(EvalInContext(CompileCommand(hin.text).code, hin.ctx))
    /\ UNCHANGED <<pc, options, actions, context, numz, line, ai, output, err,
                   consumed, steps, emitted, wroteAt, hin>>

SpecSnippet == InitSnippet /\ [][CallSnippet]_vars

\* --- Action.apply ---
\* 'x = line; m'
CmdSetX == Text(<<Assign("x", Name("line")), ExprStmt(Name("m"))>>)
\* the pattern /b a/, without a group
PatternBA == Regex(<<"b", " ", "a">>, <<>>, FALSE)

ApplyActions ==
    {ActionInit(pt, c, FALSE, ng, st) :
        pt \in {<<>>, <<PatternAB>>, <<PatternBA>>}, c \in {CmdSetX, CmdFault},
        ng \in BOOLEAN, st \in BOOLEAN}

\* the context process() hands to apply: refreshed for the line, m from an earlier firing
ApplyContexts(ln) ==
    {[ContextApply(ContextFromOptions, <<>>, 0, ln) EXCEPT !["m"] = m] :
        m \in {PyTuple(<<>>), PyBool(TRUE)}}

InitApply ==
    /\ Idle
    /\ \E a \in ApplyActions, ln \in Lines \cup {<<"x", NL>>} :
         \E c \in ApplyContexts(ln) :
            hin = [f |-> "apply", action |-> a, ln |-> ln, ctx |-> c]
    /\ hout = NotCalled

\* action.apply(context, line)
CallApply ==
    /\ hin.f = "apply"
    /\ ~hout.called
    /\ hout' = Called(Apply(hin.action, hin.ctx, hin.ln))
    /\ UNCHANGED <<pc, options, actions, context, numz, line, ai, output, err,
                   consumed, steps, emitted, wroteAt, hin>>

SpecApply == InitApply /\ [][CallApply]_vars

(***************************************************************************)
(* Claims about the pure functions.                                         *)
(***************************************************************************)
PatternPresent(a) == a.pattern # <<>>
PatternMatches(a, ln) == PatternPresent(a) /\ Search(a.pattern[1], ln)

\* the fire column of the table
TableFires(a, ln) ==
    \/ ~PatternPresent(a)
    \/ PatternMatches(a, ln) /\ ~a.negate
    \/ PatternPresent(a) /\ ~PatternMatches(a, ln) /\ a.negate

\* the match-slot column of the table
TableSlot(a, ln) ==
    IF ~PatternPresent(a) THEN PyBool(a.negate)
    ELSE IF PatternMatches(a, ln) THEN Groups(a.pattern[1])
    ELSE PyTuple(<<>>)

\* C1: Action.apply follows the six-row table. When the table says the Action
\* fires, the snippet runs (its first statement binds x to the line) with m
\* bound to the table's match-slot value, which a snippet ending in `m`
\* returns; when it says the Action does not fire, apply returns None and the
\* context, m included, is what it was.
C1_FireTable ==
    hout.called =>
        IF TableFires(hin.action, hin.ln)
        THEN /\ hout.r.ctx["m"] = TableSlot(hin.action, hin.ln)
             /\ hout.r.ctx["x"] = PyStr(hin.ln)
             /\ (hin.action.cmd = CmdSetX => hout.r.ret = TableSlot(hin.action, hin.ln))
        ELSE /\ hout.r.ret = PyNone
             /\ hout.r.ctx = hin.ctx

\* a negated pattern that does not match fired and replaced a stale m by ()
C1_Witness ==
    /\ hout.called
    /\ hin.action.negate
    /\ PatternPresent(hin.action)
    /\ ~PatternMatches(hin.action, hin.ln)
    /\ hin.ctx["m"] = PyBool(TRUE)
    /\ hout.r.ctx["m"] = PyTuple(<<>>)
    /\ hout.r.ret = PyTuple(<<>>)

\* the values write_result writes nothing for
Suppressed(v, d) == v = PyNone \/ IsFalse(v) \/ (IsTrue(v) /\ d = PyNone)

\* the text write_result is to write for the other values
ExpectedText(v, d, sep) ==
    IF IsTrue(v) THEN d.s
    ELSE IF v.ty \in {"list", "tuple"} THEN Join(sep, MapStr(v.items))
    ELSE StrOf(v)

Terminated(text) == IF EndsWithNL(text) THEN text ELSE text \o <<NL>>

\* C2: write_result writes nothing for None, False, and True without a
\* default; otherwise it writes the default (for True), the joined string
\* forms (for a list or tuple) or the string form, followed by one line
\* terminator exactly when the text does not end with one.
C2_WriteResult ==
    hout.called =>
        IF Suppressed(hin.result, hin.when_true)
        THEN hout.r = <<>>
        ELSE /\ hout.r # <<>>
             /\ hout.r[1] = ExpectedText(hin.result, hin.when_true, hin.odelim)
             /\ Flatten(hout.r) = Terminated(hout.r[1])
             /\ EndsWithNL(Flatten(hout.r))

\* a tuple joined with ',' and terminated, and no terminator added to a text that has one
C2_Witness ==
    /\ hout.called
    /\ hin.result = PyTuple(<<PyStr(<<"a">>), PyInt(1)>>)
    /\ hin.odelim = <<",">>
    /\ hout.r = <<(<<"a", ",", "1">>), <<NL>>>>

\* C3: when the run of a compiled text returns, it returns the value of the
\* trailing bare expression evaluated after the statements before it ran in
\* order, or None when the text does not end in a bare expression; the
\* capture slot is no key of the context and every other name is bound as the
\* text's own statements bind it.
C3_LastExpression ==
    (hout.called /\ hout.r.ok) =>
        /\ IF Len(hin.text.body) > 0 /\ Last(hin.text.body).op = "expr"
           THEN hout.r.ret =
                    EvalExpr(Last(hin.text.body).e,
                             Exec(Front(hin.text.body), Fresh(hin.ctx)).ctx).v
           ELSE hout.r.ret = PyNone
        /\ hout.r.ctx[RESULT_VAR_NAME] = Absent
        /\ \A n \in SnippetNames :
              hout.r.ctx[n] = Exec(hin.text.body, Fresh(hin.ctx)).ctx[n]

\* 'x = 1; x' run where x was unbound: returns 1, leaves x bound
C3_Witness ==
    /\ hout.called
    /\ hout.r.ok
    /\ hin.text.body = <<Assign("x", Const(PyInt(1))), ExprStmt(Name("x"))>>
    /\ hin.ctx["x"] = Absent
    /\ hout.r.ret = PyInt(1)
    /\ hout.r.ctx["x"] = PyInt(1)

(***************************************************************************)
(* Claims about process().                                                  *)
(***************************************************************************)
\* the steps of line k: the refresh, then every action in declared order
LineSteps(k, nActions) ==
    <<(<<"refresh", k, 0>>)>> \o [j \in 1..nActions |-> <<"apply", k, j>>]

RECURSIVE AllLineSteps(_, _, _)
AllLineSteps(k, nLines, nActions) ==
    IF k > nLines THEN <<>>
    ELSE LineSteps(k, nActions) \o AllLineSteps(k + 1, nLines, nActions)

PhaseStep(stmt, kind) == IF Configured(stmt) THEN <<(<<kind, 0, 0>>)>> ELSE <<>>

ExpectedSteps ==
    PhaseStep(options.begin, "begin")
    \o AllLineSteps(1, Len(consumed), Len(actions))
    \o PhaseStep(options.end, "end")

\* position of a step in a sequence of steps (0: not there)
IndexOf(seq, st) ==
    IF \E i \in 1..Len(seq) : seq[i] = st
    THEN CHOOSE i \in 1..Len(seq) : seq[i] = st
    ELSE 0

\* the units come out in the order of the steps that wrote them, one per step
InStepOrder(units, sts) ==
    /\ \A i \in 1..Len(units) : IndexOf(sts, units[i]) > 0
    /\ \A i \in 1..Len(units), j \in 1..Len(units) :
          i < j => IndexOf(sts, units[i]) < IndexOf(sts, units[j])

\* C4: a run that ends normally has taken exactly the steps BEGIN (if
\* configured), then per line in arrival order the refresh followed by every
\* action in declared order, then END (if configured); and the output units
\* were written in that order.
C4_Lifecycle ==
    pc = "done" =>
        /\ steps = ExpectedSteps
        /\ InStepOrder(emitted, ExpectedSteps)

\* two lines, two actions; BEGIN and END emitted; on line 1 the first action
\* emitted nothing and the second did
C4_Witness ==
    /\ pc = "done"
    /\ Len(consumed) = 2
    /\ Len(actions) = 2
    /\ Len(emitted) >= 3
    /\ emitted[1] = <<"begin", 0, 0>>
    /\ emitted[2] = <<"apply", 1, 2>>
    /\ Last(emitted) = <<"end", 0, 0>>

\* C5: in strict mode a firing Action whose snippet raises ends process with
\* that exception; the output written so far stays as it is; and nothing
\* happens after process has raised (no action, no refresh, no END).
C5_StrictAborts ==
    [][/\ pc # "raised"
       /\ (pc = "action" /\ actions[ai].strict /\ Apply(actions[ai], context, line).faulted)
            => /\ pc' = "raised"
               /\ err' = "EvalError"
               /\ output' = output]_vars

\* the second action of line 1 raised after the first had written; END was configured
C5_Witness ==
    /\ pc = "raised"
    /\ err = "EvalError"
    /\ options.strict
    /\ Last(steps) = <<"apply", 1, 2>>
    /\ emitted = <<(<<"apply", 1, 1>>)>>
    /\ output # <<>>
    /\ Configured(options.end)

\* C6: with strict mode off, process ends only by returning or with a
\* compile or pattern error: no evaluation fault of the begin expression, an
\* Action or the end expression leaves it.
C6_NonStrictNeverRaisesEvalError ==
    (pc = "raised" /\ ~options.strict) => err \in {"SyntaxError", "re.error"}

\* C7: every compile error and pattern error is raised before the first line
\* is read and before anything is written.
C7_CompileErrorsBeforeFirstLine ==
    (pc = "raised" /\ err \in {"SyntaxError", "re.error"})
        => (consumed = <<>> /\ output = <<>>)

\* C8: with strict mode off, a firing Action whose snippet raises writes
\* nothing (not even an empty line) and process goes on; m as bound for the
\* firing and x as assigned before the fault are in the context afterwards;
\* and no step other than an Action changes m or x, so the next Action, the
\* later lines and END read them.
C8_SwallowedFaultKeepsBindings ==
    [][/\ (pc = "action" /\ ~actions[ai].strict /\ Apply(actions[ai], context, line).faulted)
            => /\ output' = output
               /\ pc' # "raised"
               /\ context'["m"] = Match(actions[ai], line)
               /\ (actions[ai].cmd = CmdFault => context'["x"] = PyStr(line))
       /\ pc # "action" => (context'["m"] = context["m"] /\ context'["x"] = context["x"])]_vars

\* !/a(b)/ 'x = line; 1/0' fired on line 1 only and was swallowed; a later
\* action `x`, line 2 and END's `x` all saw line 1 in x
C8_Witness ==
    /\ pc = "done"
    /\ ~options.strict
    /\ options.end = <<CmdX>>
    /\ consumed = <<LineBA, LineAB>>
    /\ Len(actions) = 2
    /\ actions[1].cmd = CmdFault /\ actions[1].negate
    /\ actions[2].cmd = CmdX
    /\ context["x"] = PyStr(LineBA)
    /\ emitted = <<(<<"apply", 1, 2>>), <<"apply", 2, 2>>, <<"end", 0, 0>>>>
    /\ output = <<LineBA, LineBA, LineBA>>

AfterRefresh == pc = "action" /\ ai = 1 /\ Last(steps)[1] = "refresh"

\* C9 as stated: right after the refresh for line k, none of line, l, f, nf,
\* n and m holds a value bound while an earlier line was processed.
C9_SixBindingsFresh ==
    AfterRefresh => \A name \in PerLine \cup {"m"} : wroteAt[name] \notin 1..numz

\* C9 as amended: the refresh for line k binds line, l, f, nf and n from line
\* k alone, whatever was bound before, and leaves m and t as they were.
C9_FiveBindingsFresh ==
    [][(pc = "refresh" /\ pc' = "action")
          => /\ context'["line"] = PyStr(line')
             /\ context'["l"] = PyStr(RStrip(line'))
             /\ context'["f"] = PyTuple([i \in 1..Len(Tokens(RStrip(line'), options.delim))
                                           |-> PyStr(Tokens(RStrip(line'), options.delim)[i])])
             /\ context'["nf"] = PyInt(Len(Tokens(RStrip(line'), options.delim)))
             /\ context'["n"] = PyInt(Len(consumed'))
             /\ \A name \in PerLine : wroteAt'[name] = Len(consumed')
             /\ context'["m"] = context["m"]
             /\ context'["t"] = context["t"]
             /\ wroteAt'["m"] = wroteAt["m"]]_vars

\* line 2 was refreshed after a snippet had bound n on line 1, and m still
\* holds what line 1's firing bound
C9_Witness ==
    /\ AfterRefresh
    /\ numz = 1
    /\ wroteAt["m"] = 1
    /\ context["m"] = PyTuple(<<PyStr(<<"b">>)>>)
    /\ context["n"] = PyInt(2)
    /\ \E i \in 1..Len(actions) : actions[i].cmd = CmdClobber

\* C10: an Action built from a rule with an empty command accumulates into t
\* exactly when process will evaluate the end expression.
C10_AccumulateIffEndRuns ==
    pc \notin {"construct", "raised", "harness"} =>
        \A i \in 1..Len(actions) :
            ~Truthy(RuleArgs(options.args)[i].cmd) =>
                (actions[i].cmd = DefaultAccumulate <=> Configured(options.end))

====
